---- MODULE Spec2Model ----
(***************************************************************************)
(* Tic-Tac-Toe game-state engine of src/main.ts: the DOM board (tiles and  *)
(* the selected difficulty button), the match state of class TicTacToe,    *)
(* and the setTimeout callbacks scheduled by a winning move.               *)
(***************************************************************************)
EXTENDS Integers, Sequences, FiniteSets, TLC

VARIABLES tiles, difficulty, score, currentPlayer, round, winner, timers,
          outcome, last

vars == <<tiles, difficulty, score, currentPlayer, round, winner, timers,
          outcome, last>>

\* ---------------------------------------------------------------- bounds
\* A human click on a 3x3 board comes only while its two timers would bring
\* the pending setTimeout callbacks to at most MaxTimers; on a larger board,
\* to at most MaxBigTimers.
MaxTimers == 4

MaxBigTimers == 2

\* A human click lands on one of the first MaxChoice tiles without owner.
MaxChoice == 3

\* A board given to checkWinner on its own is the empty board painted with at
\* most MaxShapes lines, each all "X", all "O" or cleared again.
MaxShapes == 2

\* printGameOutcome is given every pair of scores from 0 to MaxScore.
MaxScore == 7

\* The board sizes offered by the difficulty buttons.
Difficulties == {3, 4}

\* ------------------------------------------------------------- constants
players == [x |-> "Computer", o |-> "Player"]

Owners == {"X", "O"}

\* A marker that is X whoever moves.
markerAlwaysX(p) == "X"

\* dataset["owned"] written by clickTile for the player who moves.
marker(p) == IF p = "Computer" THEN "X" ELSE "O"

\* The state of the program as one record (DOM board + TicTacToe fields +
\* pending timers + the visible match outcome message).
State ==
  [tiles |-> tiles, difficulty |-> difficulty, score |-> score,
   currentPlayer |-> currentPlayer, round |-> round, winner |-> winner,
   timers |-> timers, outcome |-> outcome]

\* ------------------------------------------------------------ win lines
game3Wins ==
  << <<0, 1, 2>>, <<3, 4, 5>>, <<6, 7, 8>>, <<0, 3, 6>>, <<1, 4, 7>>,
     <<2, 5, 8>>, <<0, 4, 8>>, <<2, 4, 6>> >>

game4Wins ==
  << <<0, 1, 2, 3>>, <<3, 4, 5, 6>>, <<6, 7, 8, 9>>, <<10, 11, 12, 13>>,
     <<0, 4, 8, 12>>, <<1, 5, 9, 13>>, <<2, 6, 10, 14>>, <<3, 7, 11, 15>>,
     <<0, 5, 10, 15>>, <<3, 6, 8, 9>> >>

game5Wins ==
  << <<0, 1, 2, 3, 4>>, <<5, 6, 7, 8, 9>>, <<10, 11, 12, 13, 14>>,
     <<15, 16, 17, 18, 19>>, <<20, 21, 22, 23, 24>>, <<0, 5, 10, 15, 20>>,
     <<1, 6, 11, 16, 21>>, <<2, 7, 12, 17, 22>>, <<3, 8, 13, 18, 23>>,
     <<4, 9, 14, 19, 24>>, <<5, 10, 15, 20, 25>>, <<5, 10, 15, 20, 25>>,
     <<0, 6, 12, 18, 24>>, <<4, 8, 12, 16, 20>> >>

\* let gameWin = []; if (gameMode === 3) ... else if (gameMode === 5) ...
\* A table lookup that falls back on the 3x3 table.
gameWinFallback(gameMode) ==
  IF gameMode = 4 THEN game4Wins
  ELSE IF gameMode = 5 THEN game5Wins
  ELSE game3Wins

gameWin(gameMode) ==
  IF gameMode = 3 THEN game3Wins
  ELSE IF gameMode = 4 THEN game4Wins
  ELSE IF gameMode = 5 THEN game5Wins
  ELSE << >>

\* xTiles / oTiles: zero-based indices (+tileIndex - 1) of the tiles whose
\* dataset["owned"] is the given marker; tile k of the DOM list carries
\* data-tile-index = k.
ownedTiles(ts, m) == {k - 1 : k \in {j \in 1..Len(ts) : ts[j] = m}}

\* A loop that lets a cell without owner pass: a line wins for the one owner
\* that has a cell on it.
lineFlagsNoElse(arr, xTiles, oTiles) ==
  [xWinner |-> /\ \E k \in 1..Len(arr) : arr[k] \in xTiles
               /\ \A k \in 1..Len(arr) : arr[k] \notin oTiles,
   oWinner |-> /\ \E k \in 1..Len(arr) : arr[k] \in oTiles
               /\ \A k \in 1..Len(arr) : arr[k] \notin xTiles]

\* The inner loop over one win line: xWinner and oWinner after the loop.
lineFlags(arr, xTiles, oTiles) ==
  [xWinner |-> \A k \in 1..Len(arr) : arr[k] \in xTiles /\ arr[k] \notin oTiles,
   oWinner |-> \A k \in 1..Len(arr) : arr[k] \in oTiles /\ arr[k] \notin xTiles]

\* A checkWinner that tests xWinner alone.
checkWinnerXOnly(gameMode, ts, player) ==
  \E n \in 1..Len(gameWin(gameMode)) :
     \A k \in 1..Len(gameWin(gameMode)[n]) :
        gameWin(gameMode)[n][k] \in {j - 1 : j \in {i \in 1..Len(ts) : ts[i] = "X"}}

\* DOMDisplay.checkWinner: true as soon as some line has xWinner || oWinner;
\* the currentPlayer argument is used for the message only.
checkWinner(gameMode, ts, player) ==
  LET wins == gameWin(gameMode)
      xTiles == ownedTiles(ts, "X")
      oTiles == ownedTiles(ts, "O")
  IN \E n \in 1..Len(wins) :
        LET f == lineFlags(wins[n], xTiles, oTiles)
        IN f.xWinner \/ f.oWinner

\* ---------------------------------------------------------------- timers
\* A pending timer is [kind, held].  kind "destroy" is the 1000 ms callback
\* of printWinnerMessage, "next" and "over" are the 2000 ms callbacks of
\* clickTile (next round, match over).  held is TRUE for a 2000 ms timer whose 1000 ms partner (set in
\* the same handler) has not fired yet.  The sequence is ordered by fire time.
Slow(t) == t.kind \in {"next", "over"}

firstHeld(tm) ==
  IF \E k \in 1..Len(tm) : tm[k].held
  THEN CHOOSE k \in 1..Len(tm) : tm[k].held /\ \A j \in 1..(k - 1) : ~tm[j].held
  ELSE Len(tm) + 1

\* setTimeout(..., 1000): fires after every pending timer that has less than
\* 1000 ms left and before every 2000 ms timer that has more.
setTimeout1000(tm) ==
  LET p == firstHeld(tm)
  IN SubSeq(tm, 1, p - 1) \o <<[kind |-> "destroy", held |-> FALSE]>>
       \o SubSeq(tm, p, Len(tm))

\* setTimeout(..., 2000): fires after every timer that is pending.
setTimeout2000(tm, kind) == Append(tm, [kind |-> kind, held |-> TRUE])

\* The head timer is taken off the queue; a fired 1000 ms timer releases its
\* 2000 ms partner.
popTimer(tm) ==
  LET rest == Tail(tm)
      p == firstHeld(rest)
  IN IF Head(tm).kind = "destroy" /\ p <= Len(rest)
     THEN [rest EXCEPT ![p].held = FALSE]
     ELSE rest

\* ---------------------------------------------------------- DOMDisplay
getCurrentDifficulty(s) == s.difficulty

\* destroyTiles(gameBox)
destroyTiles(s) == [s EXCEPT !.tiles = << >>]

\* printWinnerMessage: schedules the 1000 ms callback that destroys the tiles.
printWinnerMessage(s) == [s EXCEPT !.timers = setTimeout1000(s.timers)]

\* A clearGameBoard that unselects the difficulty button and leaves the tiles.
clearGameBoardKeepsTiles(s) == [s EXCEPT !.difficulty = 0]

\* clearGameBoard: destroys the tiles and unselects the difficulty button.
clearGameBoard(s) == [destroyTiles(s) EXCEPT !.difficulty = 0]

\* clearMessage: hides the match outcome message.
clearMessage(s) == [s EXCEPT !.outcome = ""]

\* printGameBoard: destroyTiles then createTiles(gameMode * gameMode).
printGameBoard(s, gameMode) ==
  [s EXCEPT !.tiles = [k \in 1..(gameMode * gameMode) |-> ""]]

\* getPlayableTile: the first tile without owner; the loop leaves currentTile
\* at the last tile when every tile is owned; undefined (0) without tiles.
getPlayableTile(ts) ==
  IF Len(ts) = 0 THEN 0
  ELSE IF \E k \in 1..Len(ts) : ts[k] = ""
  THEN CHOOSE k \in 1..Len(ts) : ts[k] = "" /\ \A j \in 1..(k - 1) : ts[j] # ""
  ELSE Len(ts)

\* A printGameOutcome with the comparison of the two scores turned round.
printGameOutcomeTurned(s) ==
  [s EXCEPT !.outcome = IF s.score.o = s.score.x THEN "Tied"
                        ELSE IF s.score.o < s.score.x THEN "Player"
                        ELSE "Computer"]

\* printGameOutcome
printGameOutcome(s) ==
  [s EXCEPT !.outcome = IF s.score.o = s.score.x THEN "Tied"
                        ELSE IF s.score.o > s.score.x THEN "Player"
                        ELSE "Computer"]

\* ------------------------------------------------------------ TicTacToe
\* An increaseScore that credits every win to "x".
increaseScoreX(s) == [s EXCEPT !.score.x = s.score.x + 1]

increaseScore(s) ==
  IF s.currentPlayer = "Computer"
  THEN [s EXCEPT !.score.x = s.score.x + 1]
  ELSE [s EXCEPT !.score.o = s.score.o + 1]

\* A switchPlayer that hands the turn to Player whoever moved.
switchPlayerToPlayer(s) == [s EXCEPT !.currentPlayer = players.o]

switchPlayer(s) ==
  [s EXCEPT !.currentPlayer =
     IF s.currentPlayer = players.x THEN players.o ELSE players.x]

\* A win branch that leaves currentPlayer as it is in both cases.
roundWonNoReset(s) ==
  LET sc == increaseScore(s)
  IN IF s.round + 1 > getCurrentDifficulty(s)
     THEN [printGameOutcome(sc) EXCEPT
             !.timers = setTimeout2000(sc.timers, "over")]
     ELSE [sc EXCEPT !.timers = setTimeout2000(sc.timers, "next")]

\* A win branch that ends the match one round early (>= for >).
roundWonEarly(s) ==
  LET r == [s EXCEPT !.round = s.round + 1]
  IN IF r.round >= getCurrentDifficulty(r)
     THEN LET sc == increaseScore(r)
              back == [sc EXCEPT !.round = sc.round - 1]
              shown == printGameOutcome(back)
          IN [shown EXCEPT !.timers = setTimeout2000(shown.timers, "over")]
     ELSE LET sc == increaseScore(r)
              back == [sc EXCEPT !.round = sc.round - 1]
              cp == [back EXCEPT !.currentPlayer = players.x]
          IN [cp EXCEPT !.timers = setTimeout2000(cp.timers, "next")]

\* The else-branch of clickTile after a win: round += 1, then the match is
\* over (round > difficulty) or the next round is scheduled; --this.round in
\* the call of updateScore takes the increment back.
roundWon(s) ==
  LET r == [s EXCEPT !.round = s.round + 1]
  IN IF r.round > getCurrentDifficulty(r)
     THEN LET sc == increaseScore(r)
              back == [sc EXCEPT !.round = sc.round - 1]
              shown == printGameOutcome(back)
          IN [shown EXCEPT !.timers = setTimeout2000(shown.timers, "over")]
     ELSE LET sc == increaseScore(r)
              back == [sc EXCEPT !.round = sc.round - 1]
              cp == [back EXCEPT !.currentPlayer = players.x]
          IN [cp EXCEPT !.timers = setTimeout2000(cp.timers, "next")]

\* TicTacToe.checkWinner, with the side effect of DOMDisplay.checkWinner: a
\* win calls printWinnerMessage before it returns true.
gameCheckWinner(s) ==
  LET won == checkWinner(getCurrentDifficulty(s), s.tiles, s.currentPlayer)
  IN [(IF won THEN printWinnerMessage(s) ELSE s) EXCEPT !.winner = won]

\* A recordMove with this.round += 1 ahead of the test of the winner flag, so
\* that a move that does not win counts a round.
recordMoveCountsRound(s, k) ==
  LET marked == [s EXCEPT !.tiles[k] = marker(s.currentPlayer)]
      w == gameCheckWinner(marked)
  IN IF ~w.winner THEN switchPlayer([w EXCEPT !.round = w.round + 1])
     ELSE roundWon(w)

\* clickTile past its guard: mark the tile for currentPlayer, check for a
\* winner, then switch the player or end the round.
recordMove(s, k) ==
  LET marked == [s EXCEPT !.tiles[k] = marker(s.currentPlayer)]
      w == gameCheckWinner(marked)
  IN IF ~w.winner THEN switchPlayer(w) ELSE roundWon(w)

\* A clickTile without the guard on the winner flag.
clickTileUnguarded(s, k) == recordMove(s, k)

\* TicTacToe.clickTile on tile k of the DOM list.
clickTile(s, k) == IF s.winner THEN s ELSE recordMove(s, k)

\* playComputer
playComputer(s) ==
  LET playableTile == getPlayableTile(s.tiles)
  IN IF playableTile = 0 THEN s ELSE clickTile(s, playableTile)

\* selectGameMode: printGameBoard, bindHandler, playComputer.
selectGameMode(s, gameMode) == playComputer(printGameBoard(s, gameMode))

\* startWithDifficulty
startWithDifficulty(s) ==
  IF getCurrentDifficulty(s) # 0
  THEN selectGameMode(s, getCurrentDifficulty(s))
  ELSE s

\* A resetGame that clears the pending timers as well.
resetGameCancels(s) ==
  [clearMessage(clearGameBoard(s)) EXCEPT
     !.currentPlayer = players.x, !.score = [x |-> 0, o |-> 0],
     !.winner = FALSE, !.round = 1, !.timers = << >>]

\* A resetGame without this.round = 1.
resetGameKeepsRound(s) ==
  [clearMessage(clearGameBoard(s)) EXCEPT
     !.currentPlayer = players.x, !.score = [x |-> 0, o |-> 0],
     !.winner = FALSE]

\* TicTacToe.resetGame
resetGame(s) ==
  [clearMessage(clearGameBoard(s)) EXCEPT
     !.currentPlayer = players.x, !.score = [x |-> 0, o |-> 0],
     !.winner = FALSE, !.round = 1]

\* A difficulty listener without this.winner = false.
difficultyChosenKeepsWinner(s, n) ==
  [clearMessage(s) EXCEPT
     !.difficulty = n, !.currentPlayer = players.x,
     !.score = [x |-> 0, o |-> 0], !.round = 1]

\* A difficulty listener without this.currentPlayer = this.players.x.
difficultyChosenKeepsPlayer(s, n) ==
  [clearMessage(s) EXCEPT
     !.difficulty = n,
     !.score = [x |-> 0, o |-> 0], !.winner = FALSE, !.round = 1]

\* The click listener of TicTacToe.selectDifficulty on a difficulty button,
\* up to its call of selectGameMode.
difficultyChosen(s, n) ==
  [clearMessage(s) EXCEPT
     !.difficulty = n, !.currentPlayer = players.x,
     !.score = [x |-> 0, o |-> 0], !.winner = FALSE, !.round = 1]

\* The whole click listener of TicTacToe.selectDifficulty.
selectDifficulty(s, n) == selectGameMode(difficultyChosen(s, n), n)

\* A callback that counts two rounds for one win.
roundAdvancedTwice(s) == [s EXCEPT !.winner = FALSE, !.round = s.round + 2]

\* The 2000 ms callback of a win that did not end the match, up to its call
\* of startWithDifficulty.
roundAdvanced(s) == [s EXCEPT !.winner = FALSE, !.round = s.round + 1]

\* The whole callback.
nextRound(s) == startWithDifficulty(roundAdvanced(s))

\* Callbacks of which the match-over one does nothing.
fireForgetsOver(s, kind) ==
  IF kind = "destroy" THEN destroyTiles(s)
  ELSE IF kind = "next" THEN nextRound(s)
  ELSE s

\* The callback of the head timer.
fire(s, kind) ==
  IF kind = "destroy" THEN destroyTiles(s)
  ELSE IF kind = "next" THEN nextRound(s)
  ELSE resetGame(s)

\* ------------------------------------------------------------- actions
Become(s) ==
  /\ tiles' = s.tiles
  /\ difficulty' = s.difficulty
  /\ score' = s.score
  /\ currentPlayer' = s.currentPlayer
  /\ round' = s.round
  /\ winner' = s.winner
  /\ timers' = s.timers
  /\ outcome' = s.outcome

\* What the last handler did: op, the number of clickTile calls that changed
\* the state, which call won ("click", "auto" or "none"), the currentPlayer
\* of the winning call, and whether a 2000 ms callback was pending when the
\* handler started; reselect is the difficulty that was selected by the
\* handler before a difficulty listener, 0 if that was another handler; was
\* holds the score, the round, the winner flag and the pending timers the
\* handler started with.
Did(op, moves, won, mover, pending) ==
  [op |-> op, moves |-> moves, won |-> won, mover |-> mover,
   pending |-> pending, reselect |-> 0,
   was |-> [score |-> [x |-> 0, o |-> 0], round |-> 1, winner |-> FALSE,
            timers |-> << >>]]

Since(d, s) ==
  [d EXCEPT !.was = [score |-> s.score, round |-> s.round,
                     winner |-> s.winner, timers |-> s.timers]]

Deferred(tm) == \E j \in 1..Len(tm) : Slow(tm[j])

Changed(a, b) == IF a # b THEN 1 ELSE 0

\* constructor + startGame: resetGame on the empty page.
Init ==
  /\ tiles = << >>
  /\ difficulty = 0
  /\ score = [x |-> 0, o |-> 0]
  /\ currentPlayer = players.x
  /\ round = 1
  /\ winner = FALSE
  /\ timers = << >>
  /\ outcome = ""
  /\ last = Did("start", 0, "none", "none", FALSE)

\* A click on a tile that has an owner: the listener returns at once.
OwnedClick ==
  /\ \E k \in 1..Len(tiles) : tiles[k] # ""
  /\ UNCHANGED vars

\* The tiles a human click is drawn from.
Clickable(ts) ==
  {k \in 1..Len(ts) :
     ts[k] = "" /\ Cardinality({j \in 1..(k - 1) : ts[j] = ""}) < MaxChoice}

\* A click on tile k without owner: clickHandler(tile), then playComputer.
HumanClick ==
  \E k \in Clickable(tiles) :
    /\ Len(timers) + 2 <= (IF Len(tiles) <= 9 THEN MaxTimers ELSE MaxBigTimers)
    /\ LET pre == State
           mid == clickTile(pre, k)
           post == playComputer(mid)
       IN /\ Become(post)
          /\ last' =
               Since(Did("click", Changed(pre, mid) + Changed(mid, post),
                         IF ~pre.winner /\ mid.winner THEN "click"
                         ELSE IF ~mid.winner /\ post.winner THEN "auto"
                         ELSE "none",
                         IF ~pre.winner /\ mid.winner THEN pre.currentPlayer
                         ELSE IF ~mid.winner /\ post.winner
                              THEN mid.currentPlayer
                         ELSE "none",
                         Deferred(pre.timers)), pre)

\* A click on a difficulty button.
SelectDifficulty ==
  \E n \in Difficulties :
    LET pre == State
        mid == printGameBoard(difficultyChosen(pre, n), n)
        post == selectDifficulty(pre, n)
    IN /\ Become(post)
       /\ last' = [Since(Did("select", Changed(mid, post), "none", "none",
                             Deferred(pre.timers)), pre)
                     EXCEPT !.reselect = IF last.op = "select"
                                         THEN difficulty ELSE 0]

\* A click on the new-game button.
ResetClick ==
  /\ Become(resetGame(State))
  /\ last' = Since(Did("newgame", 0, "none", "none", Deferred(timers)), State)

\* The timer with the earliest fire time fires.
TimerFires ==
  /\ timers # << >>
  /\ LET kind == Head(timers).kind
         pre == [State EXCEPT !.timers = popTimer(timers)]
         mid == IF kind = "next" /\ getCurrentDifficulty(pre) # 0
                THEN printGameBoard(roundAdvanced(pre), getCurrentDifficulty(pre))
                ELSE fire(pre, kind)
         post == fire(pre, kind)
     IN /\ Become(post)
        /\ last' = Since(Did(kind, Changed(mid, post), "none", "none",
                             Deferred(pre.timers)), State)

Next == OwnedClick \/ HumanClick \/ SelectDifficulty \/ ResetClick \/ TimerFires

Spec == Init /\ [][Next]_vars

\* ------------------------------------------------ matches left to run
\* The behaviours in which a difficulty button or the new-game button is
\* clicked only while no callback is pending, so that every match runs from
\* its selection on without a reset or a selection cutting across a pending
\* callback.
CalmSelect == timers = << >> /\ SelectDifficulty

CalmReset == timers = << >> /\ ResetClick

NextCalm == OwnedClick \/ HumanClick \/ CalmSelect \/ CalmReset \/ TimerFires

SpecCalm == Init /\ [][NextCalm]_vars

\* ------------------------------------------------ callbacks that fire
\* Matches of the smallest difficulty, left to run.  A setTimeout callback is
\* run by the event loop once its delay is over: the timer at the head of the
\* queue does not wait for ever.
SmallSelect ==
  /\ CalmSelect
  /\ difficulty' = CHOOSE n \in Difficulties : \A m \in Difficulties : n <= m

NextLive == OwnedClick \/ HumanClick \/ SmallSelect \/ CalmReset \/ TimerFires

SpecLive == Init /\ [][NextLive]_vars /\ WF_vars(TimerFires)

\* --------------------------------------- checkWinner on a board of its own
\* The grids given to checkWinner: those of the three difficulty buttons, the
\* page without tiles, and a grid on either side of the supported sizes.
BoardSizes == {0, 2, 3, 4, 5, 6}

Cells(n) == 0..(n * n - 1)

\* The rows, the columns and the two diagonals of the n-by-n grid, as sets of
\* indices row * n + col.
Rows(n) == {{r * n + c : c \in 0..(n - 1)} : r \in 0..(n - 1)}

Cols(n) == {{r * n + c : r \in 0..(n - 1)} : c \in 0..(n - 1)}

Diags(n) == {{r * n + r : r \in 0..(n - 1)},
             {r * n + (n - 1 - r) : r \in 0..(n - 1)}}

\* The lines a board is painted with: those of the grid and those of the
\* win-line table, as far as they lie on the board.
Shapes(n) ==
  Rows(n) \cup Cols(n) \cup Diags(n)
    \cup {{gameWin(n)[i][k] : k \in 1..Len(gameWin(n)[i])} \cap Cells(n) :
            i \in 1..Len(gameWin(n))}

Paint(ts, S, m) == [k \in 1..Len(ts) |-> IF (k - 1) \in S THEN m ELSE ts[k]]

RECURSIVE Painted(_, _, _)
Painted(n, bs, k) ==
  IF k = 0 THEN bs
  ELSE bs \cup Painted(n, {Paint(b, S, m) : b \in bs, S \in Shapes(n),
                                            m \in {"X", "O", ""}}, k - 1)

Boards(n) == Painted(n, {[k \in 1..(n * n) |-> ""]}, MaxShapes)

\* gameMode is the size of the grid, or the 0 that clickTile passes when no
\* difficulty button is selected (getCurrentDifficulty() ?? 0).
InitBoard ==
  /\ \E g \in BoardSizes : tiles \in Boards(g) /\ difficulty \in {g, 0}
  /\ score = [x |-> 0, o |-> 0]
  /\ currentPlayer = players.x
  /\ round = 1
  /\ winner = FALSE
  /\ timers = << >>
  /\ outcome = ""
  /\ last = Did("board", 0, "none", "none", FALSE)

\* this.winner = this.checkWinner(this.round, this.currentPlayer) for either
\* player on the board as it stands.
CheckBoard ==
  \E p \in {players.x, players.o} :
    /\ last.op = "board"
    /\ Become(gameCheckWinner([State EXCEPT !.currentPlayer = p]))
    /\ last' = Did("check", 0, "none", "none", FALSE)

NextBoard == CheckBoard

SpecBoard == InitBoard /\ [][NextBoard]_vars

\* ------------------------------------------------ the outcome of a match
\* printGameOutcome on every pair of scores up to MaxScore.
InitOutcome ==
  /\ tiles = << >>
  /\ difficulty = 0
  /\ score \in [x : 0..MaxScore, o : 0..MaxScore]
  /\ currentPlayer = players.x
  /\ round = 1
  /\ winner = TRUE
  /\ timers = << >>
  /\ outcome = ""
  /\ last = Did("scores", 0, "none", "none", FALSE)

\* this.display.printGameOutcome(this.score)
ReportOutcome ==
  /\ last.op = "scores"
  /\ Become(printGameOutcome(State))
  /\ last' = Did("outcome", 0, "none", "none", FALSE)

NextOutcome == ReportOutcome

SpecOutcome == InitOutcome /\ [][NextOutcome]_vars

\* ----------------------------------------------------------------- claims
\* Every index of the win line is a tile of the board owned by marker m.
LineOwnedBy(ts, line, m) ==
  \A k \in 1..Len(line) : line[k] + 1 \in 1..Len(ts) /\ ts[line[k] + 1] = m

\* Every index of the set is a tile of the board owned by marker m.
CellsOwnedBy(ts, S, m) == \A c \in S : c + 1 \in 1..Len(ts) /\ ts[c + 1] = m

WinLines == gameWin(difficulty)

\* The difficulties of the three buttons.
Offered == {3, 4, 5}

\* C1: for N in {3,4,5} and any board, if every cell of some defined win line
\* is owned by one owner, checkWinner called with that owner as currentPlayer
\* returns true.
C1_OwnedLineWins ==
  last.op = "check" =>
    \A n \in 1..Len(WinLines) :
       LineOwnedBy(tiles, WinLines[n], marker(currentPlayer)) => winner

\* C1 witness: checkWinner was called for Player on a 5x5 board on which "O"
\* owns a whole win line.
C1_Witness ==
  /\ last.op = "check" /\ difficulty = 5 /\ currentPlayer = "Player" /\ winner
  /\ \E n \in 1..Len(WinLines) : LineOwnedBy(tiles, WinLines[n], "O")

\* C2: checkWinner returns true if and only if the supplied currentPlayer owns
\* every cell of at least one win line (false when only the opponent owns a
\* complete line).
C2_TrueIffOwnLine ==
  last.op = "check" =>
    (winner <=> \E n \in 1..Len(WinLines) :
                   LineOwnedBy(tiles, WinLines[n], marker(currentPlayer)))

\* C3: the win-line set holds every row, every column and both diagonals of
\* the grid: a player who owns a full row, column or diagonal wins.
C3_RowsColsDiagsWin ==
  (last.op = "check" /\ difficulty \in Offered) =>
    \A S \in Rows(difficulty) \cup Cols(difficulty) \cup Diags(difficulty) :
       CellsOwnedBy(tiles, S, marker(currentPlayer)) => winner

\* C4: on a board where no defined win line has all its cells owned by the
\* same owner, checkWinner returns false for Computer and for Player.
C4_MixedNeverWins ==
  (/\ last.op = "check"
   /\ \A n \in 1..Len(WinLines) :
         \A m \in Owners : ~LineOwnedBy(tiles, WinLines[n], m))
    => ~winner

\* C4 witness: checkWinner returned false on a board with a win line that
\* holds cells of both owners.
C4_Witness ==
  /\ last.op = "check" /\ ~winner
  /\ \E n \in 1..Len(WinLines) :
        /\ \E k \in 1..Len(WinLines[n]) :
              CellsOwnedBy(tiles, {WinLines[n][k]}, "X")
        /\ \E k \in 1..Len(WinLines[n]) :
              CellsOwnedBy(tiles, {WinLines[n][k]}, "O")

\* C5: clickTile invoked on a cell that already has an owner changes nothing.
\* The program makes such a call in one place: the playComputer that follows
\* a human click, when getPlayableTile hands back a tile with an owner.
C5_OwnedCellNoOp ==
  [][last'.op = "click" =>
       \A k \in Clickable(tiles) :
          LET mid == clickTile(State, k)
              auto == getPlayableTile(mid.tiles)
          IN (State' = playComputer(mid) /\ auto # 0 /\ mid.tiles[auto] # "")
               => State' = mid]_vars

\* The handler of the step cleared the board or put a fresh one in its place.
BoardClearedOrReplaced ==
  \/ last'.op \in {"select", "newgame", "destroy", "over"}
  \/ last'.op = "next" /\ difficulty # 0

\* C6: once a cell is owned its owner never changes until the whole board is
\* cleared or replaced.
C6_OwnerKept ==
  [][\A k \in 1..Len(tiles) :
        tiles[k] # "" =>
          \/ BoardClearedOrReplaced
          \/ k <= Len(tiles') /\ tiles'[k] = tiles[k]]_vars

\* C7: while a 2000 ms callback scheduled by a winning move is pending, no
\* handler records a move.
C7_NoMoveWhilePending == last.pending => last.moves = 0

\* C8: with the winner flag set clickTile changes nothing, on any tile and for
\* the computer's pick; the automatic move after a human's winning click is
\* not recorded, nor is a click made while the flag is set.
C8_WinnerBlocksMoves ==
  winner =>
    /\ \A k \in 1..Len(tiles) : clickTile(State, k) = State
    /\ playComputer(State) = State
    /\ last.won = "click" => last.moves = 1
    /\ (last.op = "click" /\ last.won = "none") => last.moves = 0

\* C8 witness: a human click has just won while the computer still had a tile
\* without owner to pick.
C8_Witness ==
  /\ winner /\ last.won = "click"
  /\ \E k \in 1..Len(tiles) : tiles[k] = ""

\* C9: with a difficulty N selected, round <= N.
C9_RoundAtMostN == difficulty # 0 => round <= difficulty

\* C10 as stated: after a winning move currentPlayer is the player who made
\* it, whoever won and whichever round it was.
C10_WinnerKeepsTurn == last.won # "none" => currentPlayer = last.mover

\* C10 amended: after a winning move in the last round of the match
\* (round >= N) currentPlayer is the player who made it; after a winning move
\* in an earlier round currentPlayer is Computer.
C10_TurnAfterWin ==
  last.won # "none" =>
    currentPlayer = (IF round >= difficulty THEN last.mover ELSE players.x)

\* C10 witness: Player has just won a round that is not the last one.
C10_Witness ==
  /\ last.won # "none" /\ last.mover = "Player"
  /\ round < difficulty /\ currentPlayer = "Computer"

\* The clickTile calls the handlers make from state s, each as the state the
\* call starts in and the tile it is given: the human's click, the computer's
\* pick that follows it, and the computer's first move on the fresh board of a
\* difficulty selection or of a next-round callback.
Calls(s) ==
  LET human == {[at |-> s, tile |-> k] : k \in Clickable(s.tiles)}
      auto == {[at |-> clickTile(c.at, c.tile),
                tile |-> getPlayableTile(clickTile(c.at, c.tile).tiles)] :
                 c \in human}
      fresh == {[at |-> printGameBoard(difficultyChosen(s, n), n), tile |-> 1] :
                  n \in Difficulties}
      due == [s EXCEPT !.timers = popTimer(s.timers)]
      again == IF /\ s.timers # << >>
                  /\ Head(s.timers).kind = "next"
                  /\ getCurrentDifficulty(s) # 0
               THEN {[at |-> printGameBoard(roundAdvanced(due),
                                            getCurrentDifficulty(due)),
                      tile |-> 1]}
               ELSE {}
  IN human \cup {c \in auto : c.tile # 0} \cup fresh \cup again

After(c) == clickTile(c.at, c.tile)

\* The call is a move that is recorded and does not win.
Passes(c) == ~c.at.winner /\ ~After(c).winner

Bumped(sc, p) ==
  IF p = "Computer" THEN [sc EXCEPT !.x = @ + 1] ELSE [sc EXCEPT !.o = @ + 1]

\* C11: a round win adds exactly 1 to the score of the player whose move won
\* and leaves the other score alone; a move that does not win changes neither
\* score (the opening move of a selection leaves the 0:0 of the listener).
C11_ScorePerWin ==
  /\ last.op = "click"
       => score = (IF last.won = "none" THEN last.was.score
                   ELSE Bumped(last.was.score, last.mover))
  /\ last.op = "next" => score = last.was.score
  /\ last.op = "select" => score = [x |-> 0, o |-> 0]

\* C11 witness: Player has just won a round after Computer had won one.
C11_Witness ==
  /\ last.won = "click" /\ last.mover = "Player"
  /\ score = [x |-> 1, o |-> 1]

\* C12: a move that does not win leaves round as it is, and a handler that
\* raises round is the handler of a winning move or the next-round callback a
\* winning move scheduled.
C12_RoundOnlyByWin ==
  /\ round >= 1
  /\ (last.op = "click" /\ last.won = "none") => round = last.was.round
  /\ last.op = "select" => round = 1
  /\ round > last.was.round
       => \/ last.op = "next"
          \/ last.op = "click" /\ last.won # "none"

\* C12 witness: a click and the computer's answer, neither winning, in round 2.
C12_Witness ==
  /\ last.op = "click" /\ last.won = "none" /\ last.moves = 2
  /\ round = 2 /\ ~winner

\* C13: the reported outcome is a tie exactly when the two scores are equal,
\* and otherwise names the player with the strictly higher score: Player when
\* score.o > score.x, Computer when score.x > score.o.
C13_OutcomeByScore ==
  last.op = "outcome"
    => /\ (outcome = "Tied") <=> (score.x = score.o)
       /\ (outcome = "Player") <=> (score.o > score.x)
       /\ (outcome = "Computer") <=> (score.x > score.o)

\* C13 witness: the three outcomes have each been reported; this one is the
\* higher scorer of an odd match, 2 to 1 for the Computer.
C13_Witness ==
  last.op = "outcome" /\ score = [x |-> 2, o |-> 1] /\ outcome = "Computer"

\* The board a difficulty button leaves: n * n tiles, the first one marked by
\* the computer's opening move, every other one unowned.
Opened(n) == [k \in 1..(n * n) |-> IF k = 1 THEN "X" ELSE ""]

\* C14: whatever the state, selecting difficulty N resets score to 0:0, round
\* to 1, winner to false and currentPlayer to Computer, and puts a fresh board
\* of N*N tiles on the page on which the Computer has made the first move
\* (which hands the turn to Player).
C14_SelectResets ==
  /\ \A n \in Difficulties :
        difficultyChosen(State, n).currentPlayer = players.x
  /\ last.op = "select"
       => /\ score = [x |-> 0, o |-> 0]
          /\ round = 1
          /\ ~winner
          /\ difficulty \in Difficulties
          /\ tiles = Opened(difficulty)
          /\ last.moves = 1
          /\ currentPlayer = players.o

\* C14 witness: difficulty 4 selected while a won round's callback is pending.
C14_Witness ==
  /\ last.op = "select" /\ last.pending
  /\ difficulty = 4 /\ timers # << >>

\* C15: from any state, selecting M and then N leaves the same state and board
\* as selecting N alone, for all M, N in {3, 4, 5}, M = N included.
C15_SelectIdempotent ==
  \A m \in Offered, n \in Offered :
     selectDifficulty(selectDifficulty(State, m), n) = selectDifficulty(State, n)

\* C15 witness: difficulty 3 selected right after difficulty 4 was.
C15_Witness ==
  last.op = "select" /\ last.reselect = 4 /\ difficulty = 3

\* The state resetGame leaves.
Blank ==
  /\ tiles = << >>
  /\ difficulty = 0
  /\ score = [x |-> 0, o |-> 0]
  /\ round = 1
  /\ currentPlayer = players.x
  /\ ~winner

\* C16: whatever the state, resetGame leaves no tiles, no difficulty, score
\* 0:0, round 1, currentPlayer Computer and winner false.
C16_ResetBlank ==
  /\ last.op \in {"newgame", "over"} => Blank
  /\ resetGame(State) = [State EXCEPT !.tiles = << >>, !.difficulty = 0,
                                      !.score = [x |-> 0, o |-> 0],
                                      !.round = 1, !.outcome = "",
                                      !.currentPlayer = players.x,
                                      !.winner = FALSE]

\* C16 witness: the new-game button clicked while a won
\* round's callback is pending.
C16_Witness ==
  last.op = "newgame" /\ last.pending /\ timers # << >> /\ Blank

\* The pick of playComputer is made in the state a human click leaves and on
\* the fresh board of a difficulty selection or of a next-round callback.
AutoRuns(s) ==
  {clickTile(s, k) : k \in Clickable(s.tiles)}
    \cup {c.at : c \in {d \in Calls(s) :
                            \A j \in 1..Len(d.at.tiles) : d.at.tiles[j] = ""}}

\* C17: the computer's automatic move picks the lowest-index tile without
\* owner, and when there is none (no tiles or a full board) it picks nothing
\* and makes no move.
C17_LowestOpenOrNothing ==
  \A m \in AutoRuns(State) :
     LET pick == getPlayableTile(m.tiles)
     IN IF \E j \in 1..Len(m.tiles) : m.tiles[j] = ""
        THEN /\ pick \in 1..Len(m.tiles)
             /\ m.tiles[pick] = ""
             /\ \A j \in 1..(pick - 1) : m.tiles[j] # ""
        ELSE pick = 0 /\ playComputer(m) = m

\* C18: with a board size other than 3, 4 or 5 (0 for no difficulty included)
\* checkWinner returns false whatever the board and the player, and schedules
\* no round-won notification.
C18_UnsupportedSizeNoWin ==
  (last.op = "check" /\ difficulty \notin Offered)
    => ~winner /\ timers = << >>

\* C18 witness: checkWinner was called with gameMode 0 on a 3x3 board whose
\* top row is all "X".
C18_Witness ==
  /\ last.op = "check" /\ difficulty = 0 /\ Len(tiles) = 9
  /\ CellsOwnedBy(tiles, {0, 1, 2}, "X")
  /\ ~winner

\* C19: a move that is recorded and does not win hands currentPlayer to the
\* other player and changes nothing else but the owner of the chosen tile.
C19_MoveFrame ==
  \A c \in Calls(State) :
     Passes(c) =>
       After(c) = [c.at EXCEPT
                     !.tiles[c.tile] = marker(c.at.currentPlayer),
                     !.currentPlayer = IF c.at.currentPlayer = players.x
                                       THEN players.o ELSE players.x]

\* C19 witness: on the 4x4 board a click and the computer's answer have both
\* been recorded without a win, and the turn is back with Player.
C19_Witness ==
  /\ last.op = "click" /\ last.won = "none" /\ last.moves = 2
  /\ difficulty = 4 /\ currentPlayer = players.o
  /\ \E k \in 1..Len(tiles) : tiles[k] = "O"

\* C20: in a match of difficulty N that no reset and no difficulty selection
\* cuts across, the match outcome is on the page exactly from the winning move
\* of round N on, and on no earlier winning move; the wins counted by then are
\* exactly N, one per round.
C20_OutcomeAtRoundN ==
  difficulty # 0 =>
    /\ round <= difficulty
    /\ score.x + score.o = (IF winner THEN round ELSE round - 1)
    /\ (outcome # "") <=> (winner /\ round = difficulty)
    /\ (last.won # "none" /\ round < difficulty) => outcome = ""

\* C20 witness: the third round of a 3x3 match has just been won by a click
\* and the outcome of the match is reported, Player having won a round.
C20_Witness ==
  /\ last.op = "click" /\ last.won # "none"
  /\ difficulty = 3 /\ round = 3 /\ outcome # ""
  /\ score.x + score.o = 3 /\ score.o >= 1

\* C21: after a winning move in a round that is not the last, winner stays
\* set until the next-round callback fires; the callback clears winner, makes
\* round one more than the round just won and starts a fresh board of the same
\* size on which the Computer has made the first move.
C21_NextRoundStarts ==
  /\ (\E j \in 1..Len(timers) : timers[j].kind = "next") => winner
  /\ last.op = "next"
       => /\ last.was.winner
          /\ ~winner
          /\ round = last.was.round + 1
          /\ difficulty # 0
          /\ tiles = Opened(difficulty)
          /\ currentPlayer = players.o

\* C22: after the winning move of the last round of a match, given that the
\* scheduled timers fire, the program reaches the fully reset state: no tiles,
\* no difficulty, score 0:0, round 1, currentPlayer Computer, winner false.
C22_EventuallyReset ==
  (last.won # "none" /\ outcome # "") ~> (Blank /\ last.op = "over")

\* C22 witness: the match-over callback of a 3x3 match has fired and left the
\* reset state.
C22_Witness ==
  /\ last.op = "over" /\ Blank
  /\ last.was.winner /\ last.was.round = 3

\* Queue new is queue old with nothing taken out: the same, or old with one
\* 1000 ms timer put in and one 2000 ms timer put at the end.
Kept(old, new) ==
  \/ new = old
  \/ /\ Len(new) = Len(old) + 2
     /\ Slow(new[Len(new)])
     /\ \E p \in 1..(Len(old) + 1) :
           /\ ~Slow(new[p])
           /\ SubSeq(new, 1, p - 1) = SubSeq(old, 1, p - 1)
           /\ SubSeq(new, p + 1, Len(new) - 1) = SubSeq(old, p, Len(old))

\* C23: a callback scheduled by a winning move is never cancelled: a reset,
\* a difficulty selection or a click leaves every pending timer pending, a
\* timer leaves the queue only by firing, and when it fires it applies its
\* effect to the state of that moment: winner cleared, round + 1 and a restart
\* at the selected difficulty if there is one, or the full reset.
C23_NeverCancelled ==
  /\ last.op \in {"select", "newgame"} => timers = last.was.timers
  /\ last.op = "click" => Kept(last.was.timers, timers)
  /\ last.op \in {"destroy", "next", "over"}
       => /\ last.was.timers # << >>
          /\ Head(last.was.timers).kind = last.op
          /\ timers = popTimer(last.was.timers)
  /\ last.op = "next"
       => /\ ~winner
          /\ round = last.was.round + 1
          /\ score = last.was.score
          /\ IF difficulty = 0 THEN tiles = << >>
             ELSE /\ Len(tiles) = difficulty * difficulty
                  /\ tiles[1] # ""
                  /\ \A k \in 2..Len(tiles) : tiles[k] = ""
  /\ last.op = "over" => Blank

\* C23 witness: a next-round callback has fired after a difficulty selection
\* had cleared the winner flag, and has restarted the round of the new match.
C23_Witness ==
  /\ last.op = "next" /\ ~last.was.winner
  /\ difficulty # 0 /\ round = 2 /\ tiles # << >>

Full(ts) == ts # << >> /\ \A k \in 1..Len(ts) : ts[k] # ""

\* C24: a round ends only through a winning line: once the last open tile is
\* filled by a move that does not win, no move ends the round, changes round
\* or changes the score.
C24_FullBoardNoEnd ==
  \A c \in Calls(State) :
     (Full(c.at.tiles) /\ ~c.at.winner)
       => /\ ~After(c).winner
          /\ After(c).round = c.at.round
          /\ After(c).score = c.at.score

\* C25: in every reachable state a move made by the automatic pick marks its
\* tile X and a move made by a human click marks its tile O.
C25_MarkerByMover ==
  /\ \A k \in Clickable(tiles) :
        ~winner => clickTile(State, k).tiles[k] = "O"
  /\ \A s \in AutoRuns(State) :
        LET k == getPlayableTile(s.tiles)
        IN  (k # 0 /\ ~s.winner) => clickTile(s, k).tiles[k] = "X"

\* C26: with no reset and no selection while a callback is pending, every
\* state at rest with a difficulty selected has score.x + score.o = round - 1
\* when winner is false and score.x + score.o = round when winner is true.
C26_ScoreCountsRounds ==
  difficulty # 0 =>
    /\ ~winner => score.x + score.o = round - 1
    /\ winner => score.x + score.o = round

\* C26 witness: the callback after the second won round has opened round 3,
\* each side having won one round.
C26_Witness ==
  /\ last.op = "next" /\ difficulty # 0 /\ ~winner
  /\ round = 3 /\ score.x = 1 /\ score.o = 1

\* C27: when a move is evaluated as winning, a win line is owned entirely by
\* the marker of the player who moved (X for Computer, O for Player), no win
\* line is owned by the other marker, and the score that went up is the
\* mover's.
C27_LineOfTheMover ==
  (last.op = "click" /\ last.won # "none") =>
    LET m == IF last.mover = "Computer" THEN "X" ELSE "O"
        other == IF last.mover = "Computer" THEN "O" ELSE "X"
    IN /\ last.mover \in {"Computer", "Player"}
       /\ \E k \in 1..Len(WinLines) : LineOwnedBy(tiles, WinLines[k], m)
       /\ \A k \in 1..Len(WinLines) : ~LineOwnedBy(tiles, WinLines[k], other)
       /\ score = Bumped(last.was.score, last.mover)

\* C27 witness: on the 4x4 board a click of Player has just completed a win
\* line.
C27_Witness ==
  /\ last.op = "click" /\ last.won = "click" /\ last.mover = "Player"
  /\ difficulty = 4 /\ winner

\* C28: while no difficulty is selected the board has no tiles and no move can
\* be recorded (no tile to click, nothing for the automatic pick, and a pending
\* callback that fires leaves the board without tiles); whenever the board has
\* tiles their number is difficulty * difficulty.
C28_BoardFollowsDifficulty ==
  /\ difficulty = 0
       => /\ tiles = << >>
          /\ Clickable(tiles) = {}
          /\ getPlayableTile(tiles) = 0
          /\ timers # << >> => fire(State, Head(timers).kind).tiles = << >>
  /\ tiles # << >> => Len(tiles) = difficulty * difficulty

\* C28 witness: a next-round callback has fired after the new-game button was
\* clicked: no difficulty and no tiles, and round was raised to 2.
C28_Witness ==
  /\ last.op = "next" /\ difficulty = 0 /\ tiles = << >>
  /\ ~last.was.winner /\ round = 2

\* C29: the win-line table of each offered difficulty N is well formed: every
\* line has exactly N distinct indices, every index is one of the N * N tiles
\* of the board (0 .. N * N - 1), and no line is listed twice.
C29_TablesWellFormed ==
  (difficulty \in Offered /\ Len(tiles) = difficulty * difficulty) =>
    /\ \A k \in 1..Len(WinLines) :
          /\ Len(WinLines[k]) = difficulty
          /\ \A i, j \in 1..Len(WinLines[k]) :
                i # j => WinLines[k][i] # WinLines[k][j]
          /\ \A i \in 1..Len(WinLines[k]) :
                WinLines[k][i] \in 0..(Len(tiles) - 1)
    /\ \A k, m \in 1..Len(WinLines) : k # m => WinLines[k] # WinLines[m]

TypeOK ==
  /\ difficulty \in {0} \cup Difficulties
  /\ score.x \in Nat /\ score.o \in Nat
  /\ currentPlayer \in {"Computer", "Player"}
  /\ round \in Nat
  /\ winner \in BOOLEAN
  /\ Len(timers) <= MaxTimers

====
